---------------------------- MODULE Spec2Model ----------------------------
(***************************************************************************)
(* NodeToCode MCP bridge (Content/Python/mcp_bridge/nodetocode_bridge.py): *)
(* a stdio <-> HTTP bridge.  The model covers server discovery, the main   *)
(* loop, the request forwarder, the SSE consumer and the output framing.   *)
(*                                                                         *)
(* A text (an input line, an HTTP body, a stdout line, an SSE stream) is a *)
(* sequence of lexical tokens; a token is a string: a JSON punctuation     *)
(* mark, one white-space character, a JSON scalar, an SSE field prefix or  *)
(* a word that is not JSON.                                                *)
(***************************************************************************)
EXTENDS Integers, Sequences, FiniteSets, TLC

(***************************************************************************)
(* Texts and JSON (json.loads / json.dumps of the standard library)        *)
(***************************************************************************)

\* White space json.loads skips between tokens.
JsonWs == {" ", "\n", "\r", "\t"}

\* String literals, numbers and the three literal names of the model's texts.
StrLits == {"\"jsonrpc\"", "\"2.0\"", "\"id\"", "\"result\"", "\"pong\"",
            "\"ok\"", "\"method\"", "\"ping\"", "\"params\"", "\"error\"",
            "\"code\"", "\"message\"", "\"status\"", "\"accepted\"",
            "\"pending\"", "\"sseUrl\"", "\"taskId\"", "\"U\"", "\"\"", "\"T\"",
            "\"progress\"", "\"Connection failed\"", "\"Parse error\"",
            "\"timed out\"", "\"no attribute 'get'\"",
            "\"can't decode byte\"", "\"<e-acute>\"", "\"\\u00e9\"",
            "\"maximum recursion depth exceeded\""}
NumLits == {"1", "7", "50", "-32700", "-32603", "1E2", "100.0"}
NameLits == {"null", "true", "false"}

IsScalar(tok) == tok \in StrLits \cup NumLits \cup NameLits

\* The Python value json.loads makes of a scalar literal, named by the literal
\* json.dumps writes for that value: a non-ASCII character of a string comes
\* back as a \\u escape (ensure_ascii), a number with an exponent as a float
\* in repr form.  "\"<e-acute>\"" is the string holding the one character
\* U+00E9 unescaped.
PyValue(tok) ==
    CASE tok = "\"<e-acute>\"" -> "\"\\u00e9\""
      [] tok = "1E2" -> "100.0"
      [] OTHER -> tok

\* A parsed JSON value, as the Python object json.loads builds: a scalar
\* (None is the scalar null), a list, or a dict that keeps insertion order.
Atom(tok) == [t |-> "atom", tok |-> tok, keys |-> <<>>, items |-> <<>>]
List(items) == [t |-> "arr", tok |-> "", keys |-> <<>>, items |-> items]
Dict(keys, items) == [t |-> "obj", tok |-> "", keys |-> keys, items |-> items]
None == Atom("null")
Str(tok) == Atom(tok)

IsDict(v) == v.t = "obj"

\* d[k] = v on a Python dict: an existing key keeps its place.
DictSet(d, k, v) ==
    IF \E i \in 1..Len(d.keys) : d.keys[i] = k
    THEN LET i == CHOOSE j \in 1..Len(d.keys) : d.keys[j] = k
         IN  Dict(d.keys, [d.items EXCEPT ![i] = v])
    ELSE Dict(Append(d.keys, k), Append(d.items, v))

\* d.get(k): None when the key is missing.
DictGet(d, k) ==
    IF \E i \in 1..Len(d.keys) : d.keys[i] = k
    THEN d.items[CHOOSE j \in 1..Len(d.keys) : d.keys[j] = k]
    ELSE None

RECURSIVE SkipWs(_, _)
SkipWs(s, i) ==
    IF i <= Len(s) /\ s[i] \in JsonWs THEN SkipWs(s, i + 1) ELSE i

ParseFail == [ok |-> FALSE, val |-> None, next |-> 0]
ParseOk(v, n) == [ok |-> TRUE, val |-> v, next |-> n]

RECURSIVE ParseValue(_, _)
RECURSIVE ParseMembers(_, _, _)
RECURSIVE ParseElements(_, _, _)

\* One JSON value starting at s[i] (white space skipped first).
ParseValue(s, i) ==
    LET j == SkipWs(s, i) IN
    IF j > Len(s) THEN ParseFail
    ELSE IF IsScalar(s[j]) THEN ParseOk(Atom(PyValue(s[j])), j + 1)
    ELSE IF s[j] = "{" THEN
        LET k == SkipWs(s, j + 1) IN
        IF k <= Len(s) /\ s[k] = "}" THEN ParseOk(Dict(<<>>, <<>>), k + 1)
        ELSE ParseMembers(s, k, Dict(<<>>, <<>>))
    ELSE IF s[j] = "[" THEN
        LET k == SkipWs(s, j + 1) IN
        IF k <= Len(s) /\ s[k] = "]" THEN ParseOk(List(<<>>), k + 1)
        ELSE ParseElements(s, k, <<>>)
    ELSE ParseFail

\* The members of an object from s[i] on: "key" : value, ... }
ParseMembers(s, i, d) ==
    IF ~(i <= Len(s) /\ s[i] \in StrLits) THEN ParseFail
    ELSE LET c == SkipWs(s, i + 1) IN
         IF ~(c <= Len(s) /\ s[c] = ":") THEN ParseFail
         ELSE LET r == ParseValue(s, c + 1) IN
              IF ~r.ok THEN ParseFail
              ELSE LET e  == SkipWs(s, r.next)
                       d2 == DictSet(d, PyValue(s[i]), r.val)
                   IN  IF e > Len(s) THEN ParseFail
                       ELSE IF s[e] = "}" THEN ParseOk(d2, e + 1)
                       ELSE IF s[e] = ","
                            THEN ParseMembers(s, SkipWs(s, e + 1), d2)
                       ELSE ParseFail

\* The elements of an array from s[i] on: value, ... ]
ParseElements(s, i, items) ==
    LET r == ParseValue(s, i) IN
    IF ~r.ok THEN ParseFail
    ELSE LET e == SkipWs(s, r.next) IN
         IF e > Len(s) THEN ParseFail
         ELSE IF s[e] = "]" THEN ParseOk(List(Append(items, r.val)), e + 1)
         ELSE IF s[e] = "," THEN ParseElements(s, e + 1, Append(items, r.val))
         ELSE ParseFail

\* json.loads(text): [ok, val]; ok = FALSE stands for json.JSONDecodeError
\* (no value, or extra data after the value).
JsonLoads(text) ==
    LET r == ParseValue(text, 1) IN
    IF r.ok /\ SkipWs(text, r.next) > Len(text)
    THEN [ok |-> TRUE, val |-> r.val]
    ELSE [ok |-> FALSE, val |-> None]

\* Tokens that stand for a run of brackets nested deeper than the
\* interpreter's recursion limit.
TooDeep == {"[ x 100000", "] x 100000"}

\* json.loads(text) raises RecursionError, which is no JSONDecodeError.
JsonLoadsRaises(text) == \E i \in 1..Len(text) : text[i] \in TooDeep

RECURSIVE JsonDumps(_, _, _)
RECURSIVE DumpItems(_, _, _, _)
RECURSIVE DumpMembers(_, _, _, _, _)

\* json.dumps(v, separators=(isep, ksep)); the separators are texts.
JsonDumps(v, isep, ksep) ==
    IF v.t = "atom" THEN <<v.tok>>
    ELSE IF v.t = "arr"
         THEN <<"[">> \o DumpItems(v.items, 1, isep, ksep) \o <<"]">>
    ELSE <<"{">> \o DumpMembers(v.keys, v.items, 1, isep, ksep) \o <<"}">>

DumpItems(items, i, isep, ksep) ==
    IF i > Len(items) THEN <<>>
    ELSE (IF i > 1 THEN isep ELSE <<>>)
         \o JsonDumps(items[i], isep, ksep)
         \o DumpItems(items, i + 1, isep, ksep)

DumpMembers(keys, items, i, isep, ksep) ==
    IF i > Len(keys) THEN <<>>
    ELSE (IF i > 1 THEN isep ELSE <<>>)
         \o <<keys[i]>> \o ksep \o JsonDumps(items[i], isep, ksep)
         \o DumpMembers(keys, items, i + 1, isep, ksep)

\* json.dumps(v) with the default separators (', ', ': ').
DumpsDefault(v) == JsonDumps(v, <<",", " ">>, <<":", " ">>)
\* json.dumps with a space after each comma (C14 tells it from DumpsCompact).
DumpsSpaced(v) == JsonDumps(v, <<",", " ">>, <<":">>)

\* json.dumps(v, separators=(',', ':')).
DumpsCompact(v) == JsonDumps(v, <<",">>, <<":">>)

\* str.strip() / str.replace on a text.
RECURSIVE LStrip(_)
LStrip(s) == IF s # <<>> /\ Head(s) \in JsonWs THEN LStrip(Tail(s)) ELSE s
RECURSIVE RStrip(_)
RStrip(s) ==
    IF s # <<>> /\ s[Len(s)] \in JsonWs THEN RStrip(SubSeq(s, 1, Len(s) - 1))
    ELSE s
\* A strip that leaves the text as it is (C35 tells it from Strip).
StripNothing(s) == s

\* str.strip()
Strip(s) == LStrip(RStrip(s))


(***************************************************************************)
(* Inputs of the model: command line, stdin lines, upstream behaviour      *)
(***************************************************************************)

\* Program constants.
DEFAULT_PORT == 27000
RANGE_FIRST == 27000
RANGE_LAST == 27010

\* --host / --port values tried.
ArgHosts == {"127.0.0.1", "localhost", "ue5.lan"}
ArgPorts == {DEFAULT_PORT, 8080}
\* Endpoints at which an editor may be listening while discovery runs.
Listening == {<<"127.0.0.1", 27000>>, <<"localhost", 27005>>}
\* What one GET /mcp/health can end in.
\* "200 undecodable": status 200 with a body that is not UTF-8 (line 51
\* decodes it inside the try, whatever the debug flag).
HealthOutcomes == {"200", "200 undecodable", "204", "503", "refused",
                   "timeout"}

\* Python None as a session id, and a response without the session header.
NoSession == "<None>"
NoHeader == "<absent>"
\* Values of a response's Mcp-Session-Id header.
SessionHeaders == {NoHeader, "", "T1", "T2"}
\* Values of the header on a response with an HTTP error status.
ErrorSessionHeaders == {NoHeader, "T2"}

\* stdin lines (as sys.stdin yields them, line feed included).
LinePing == <<"{", "\"jsonrpc\"", ":", "\"2.0\"", ",", "\"id\"", ":", "1", ",",
              "\"method\"", ":", "\"ping\"", ",", "\"params\"", ":", "{", "}",
              "}", "\n">>
LineNotify == <<"{", "\"jsonrpc\"", ":", "\"2.0\"", ",", "\"method\"", ":",
                "\"ping\"", "}", "\r", "\n">>
LineBlank == <<" ", "\n">>
LineBad == <<"{", "bad", " ", "json", "\n">>
LineArray == <<"[", "1", "]", "\n">>
LineSurrogate == <<"\\udcff", "\n">>
InputLines == {LinePing, LineNotify, LineBlank, LineBad, LineArray,
               LineSurrogate}

\* HTTP bodies.
BodyPong == <<"{", "\"jsonrpc\"", ":", "\"2.0\"", ",", "\"id\"", ":", "1", ",",
              "\"result\"", ":", "\"pong\"", "}">>
BodyPrettyNoId == <<"{", "\n", " ", "\"jsonrpc\"", ":", " ", "\"2.0\"", ",", "\n",
                    " ", "\"result\"", ":", " ", "\"ok\"", "\n", "}", "\n">>
BodyNullId == <<"{", "\"id\"", ":", "null", ",", "\"error\"", ":", "{",
                "\"code\"", ":", "-32603", "}", "}">>
BodyOtherId == <<"{", "\"id\"", ":", "7", ",", "\"result\"", ":", "\"ok\"", "}">>
BodyArray == <<"[", "1", ",", " ", "7", "]">>
BodyText == <<"Internal", " ", "Server", "\r", "\n", "Error", "\n">>
BodyEmpty == <<>>
BodyNonAscii == <<"{", "\"jsonrpc\"", ":", "\"2.0\"", ",", "\"id\"", ":", "1", ",",
                  "\"result\"", ":", "\"<e-acute>\"", "}">>
BodyDupKey == <<"{", "\"id\"", ":", "1", ",", "\"result\"", ":", "1E2", ",",
                "\"result\"", ":", "\"ok\"", "}">>
\* A body nested beyond the recursion limit of the json module.
BodyTooDeep == <<"{", "\"result\"", ":", "[ x 100000", "] x 100000", "}">>
Bodies200 == {BodyPong, BodyPrettyNoId, BodyNullId, BodyOtherId, BodyArray,
              BodyText, BodyEmpty, BodyNonAscii, BodyDupKey, BodyTooDeep}
BodiesError == {BodyNullId, BodyPrettyNoId, BodyText, BodyEmpty}
\* An error body whose bytes are not UTF-8.
BodyUndecodable == <<"\\xff">>

\* 202 bodies: deferral descriptors and others.
DescAccepted == <<"{", "\"status\"", ":", "\"accepted\"", ",", "\"sseUrl\"", ":",
                  "\"U\"", ",", "\"taskId\"", ":", "\"T\"", "}">>
DescPending == <<"{", "\"status\"", ":", "\"pending\"", ",", "\"sseUrl\"", ":",
                 "\"U\"", "}">>
DescNoUrl == <<"{", "\"status\"", ":", " ", "\"accepted\"", ",", " ", "\"taskId\"",
               ":", " ", "\"T\"", "}">>
DescEmptyUrl == <<"{", "\"status\"", ":", "\"accepted\"", ",", "\"sseUrl\"", ":",
                  "\"\"", "}">>
Bodies202 == {DescAccepted, DescPending, DescNoUrl, DescEmptyUrl, BodyEmpty,
              BodyArray}

\* SSE streams (text/event-stream bodies).
DataProgress == <<"{", "\"progress\"", ":", "50", "}">>
DataResult == <<"{", "\"result\"", ":", " ", "\"ok\"", "}">>
EvProgress == <<"event:", "progress", "\n", "data:">> \o DataProgress
              \o <<"\n", "\n">>
EvResponse == <<"event:", " ", "response", "\n", "data:", " ">> \o DataResult
              \o <<"\n", "\n">>
EvEmptyResponse == <<"event:", "response", "\n", "data:", "\n", "\n">>
EvMessage == <<"data:", " ">> \o DataProgress \o <<"\n", "\n">>
EvEmptyProgress == <<"event:", "progress", "\n", "data:", "\n", "\n">>
EvNotification == <<"event:", " ", "notification", "\n", "data:", "50", "\n",
                    "\n">>
\* A block that repeats its fields and holds a line of another field.
EvOverwritten == <<"event:", "progress", "\n", "data:", "1", "\n", "id:", "7",
                   "\n", "event:", "result", "\n", "data:", " ", "\"ok\"",
                   "\n", "\n">>
Streams == {EvProgress \o EvResponse,
            EvEmptyResponse \o EvProgress,
            EvMessage \o SubSeq(EvResponse, 1, Len(EvResponse) - 1),
            EvEmptyProgress \o EvMessage \o EvNotification \o EvOverwritten,
            <<>>}


(***************************************************************************)
(* Program state                                                           *)
(***************************************************************************)
VARIABLES
    pc,           \* where the process is: "probe_cfg", "probe_range" (discovery),
                  \* "read" (blocked on stdin), "post" (POST in flight),
                  \* "sse_open" (GET of the stream in flight), "sse_read"
                  \* (blocked on the stream), "exit"
    argHost,      \* args.host
    argPort,      \* args.port
    hIdx,         \* find_ue5_server: index of h in hosts_to_try
    pCur,         \* find_ue5_server: p of the range scan
    probes,       \* the health probes issued so far, in order: <<h, p>>
    server,       \* what find_ue5_server returned (NoServer before it returns)
    exitCode,     \* the process's exit status (Running while it runs)
    exitCause,    \* why the process ended: "no_server", "eof", "interrupt",
                  \* "fatal" ("" while it runs)
    healthy,      \* what check_ue5_health returned for each probe, in order
    health,       \* how the GET of the last health probe ended ("" before)
    session_id,   \* main's session_id
    line,         \* main's line (stripped) of the current iteration
    request_id,   \* main's request_id of the current iteration
    out,          \* stdout lines written since the current line was read
    post,         \* the last POST issued: its target, headers and body
    reply,        \* the answer to the current line's POST, as forward_request
                  \* and handle_sse_response see it
    stream,       \* the event stream the upstream serves for the current line
    sent,         \* number of tokens of stream read from the open connection
    buffer,       \* handle_sse_response's buffer
    ret,          \* what forward_request returned for the current line
    supplied      \* the last session token a POST response carried

vars == <<pc, argHost, argPort, hIdx, pCur, probes, server, exitCode,
          exitCause, healthy, health, session_id, line, request_id, out, post,
          reply, stream, sent, buffer, ret, supplied>>

discoveryVars == <<argHost, argPort, hIdx, pCur, probes, healthy, health,
                   server>>
sseVars == <<stream, sent, buffer>>

NoServer == <<"", 0>>
Running == -1
NoPost == [host |-> "", port |-> 0, hdr |-> NoHeader, body |-> <<>>]
NoRet == [returned |-> FALSE, body |-> <<>>, sid |-> NoSession]
NoReply == [status |-> "", hdr |-> NoHeader, body |-> <<>>, sid |-> NoSession,
            sse |-> ""]

(***************************************************************************)
(* Discovery: check_ue5_health, find_ue5_server                            *)
(***************************************************************************)

\* A probe that takes any 2xx status for a live server (C21 tells it from
\* check_ue5_health).
check_ue5_healthAny2xx(outcome) == outcome \in {"200", "204"}

\* check_ue5_health: True only for an answer with status 200.
check_ue5_health(outcome) == outcome = "200"

\* What a probe of <<h, p>> can end in.
ProbeOutcomes(h, p) ==
    IF <<h, p>> \in Listening THEN HealthOutcomes ELSE HealthOutcomes \ {"200"}

\* A host list with the name before the address (C7 tells it from
\* hosts_to_try).
hosts_to_tryNameFirst(host) ==
    IF host = "localhost" THEN <<"localhost", "127.0.0.1">> ELSE <<host>>

\* A discovery that also tries the IPv6 loopback for localhost (C37 tells it
\* from hosts_to_try).
hosts_to_tryWithV6(host) ==
    IF host = "localhost" THEN <<"127.0.0.1", "localhost", "::1">>
    ELSE <<host>>

\* find_ue5_server, line 64.
hosts_to_try(host) ==
    IF host = "localhost" THEN <<"127.0.0.1", "localhost">> ELSE <<host>>

\* The range scan's test for the pair that the first loop tried.
AlreadyTried(h, p, host, port) == p = port /\ h = host

\* The pairs the range scan probes from position (i, p) on, in order.
RECURSIVE ScanFrom(_, _, _, _)
ScanFrom(i, p, host, port) ==
    IF i > Len(hosts_to_try(host)) THEN <<>>
    ELSE IF p > RANGE_LAST THEN ScanFrom(i + 1, RANGE_FIRST, host, port)
    ELSE IF AlreadyTried(hosts_to_try(host)[i], p, host, port)
         THEN ScanFrom(i, p + 1, host, port)
    ELSE <<<<i, p>>>> \o ScanFrom(i, p + 1, host, port)

Init ==
    /\ pc = "probe_cfg"
    /\ argHost \in ArgHosts
    /\ argPort \in ArgPorts
    /\ hIdx = 1
    /\ pCur = RANGE_FIRST
    /\ probes = <<>>
    /\ server = NoServer
    /\ exitCode = Running
    /\ exitCause = ""
    /\ healthy = <<>>
    /\ health = ""
    /\ session_id = NoSession
    /\ line = <<>>
    /\ request_id = None
    /\ out = <<>>
    /\ post = NoPost
    /\ reply = NoReply
    /\ stream = <<>>
    /\ sent = 0
    /\ buffer = <<>>
    /\ ret = NoRet
    /\ supplied = NoHeader

loopVars == <<session_id, line, request_id, out, post, reply, stream, sent,
              buffer, ret, supplied>>

\* A main that goes on to the loop without a server (C8 tells it from
\* DiscoveryFailed).
DiscoveryFailedEntersLoop ==
    /\ pc' = "read"
    /\ exitCode' = exitCode
    /\ exitCause' = exitCause
    /\ server' = NoServer

\* main, after find_ue5_server returned None: log and sys.exit(1).
DiscoveryFailed ==
    /\ pc' = "exit"
    /\ exitCode' = 1
    /\ exitCause' = "no_server"
    /\ server' = NoServer

\* A find_ue5_server that returns the configured port with the host that
\* answered (C19 tells it from DiscoveryFound).
DiscoveryFoundConfiguredPort(h, p) ==
    /\ pc' = "read"
    /\ exitCode' = exitCode
    /\ exitCause' = exitCause
    /\ server' = <<h, argPort>>

\* main, after find_ue5_server returned (h, p): enter the loop.
DiscoveryFound(h, p) ==
    /\ pc' = "read"
    /\ exitCode' = exitCode
    /\ exitCause' = exitCause
    /\ server' = <<h, p>>

\* Enter the range scan at the first pair it does not skip.
StartScan(i, p) ==
    LET todo == ScanFrom(i, p, argHost, argPort) IN
    IF todo = <<>>
    THEN DiscoveryFailed /\ UNCHANGED <<hIdx, pCur>>
    ELSE /\ pc' = "probe_range"
         /\ hIdx' = todo[1][1]
         /\ pCur' = todo[1][2]
         /\ UNCHANGED <<server, exitCode, exitCause>>

\* First loop of find_ue5_server: the configured port on each host to try.
ProbeConfigured ==
    /\ pc = "probe_cfg"
    /\ LET h == hosts_to_try(argHost)[hIdx] IN
       /\ probes' = Append(probes, <<h, argPort>>)
       /\ \E outcome \in ProbeOutcomes(h, argPort) :
            /\ healthy' = Append(healthy, check_ue5_health(outcome))
            /\ health' = outcome
            /\ IF check_ue5_health(outcome)
               THEN DiscoveryFound(h, argPort) /\ UNCHANGED <<hIdx, pCur>>
               ELSE IF hIdx < Len(hosts_to_try(argHost))
                    THEN /\ hIdx' = hIdx + 1
                         /\ UNCHANGED <<pc, pCur, server, exitCode,
                                        exitCause>>
                    ELSE StartScan(1, RANGE_FIRST)
    /\ UNCHANGED <<argHost, argPort>>
    /\ UNCHANGED loopVars

\* Second loop of find_ue5_server: ports 27000..27010 on each host to try.
ProbeRange ==
    /\ pc = "probe_range"
    /\ LET h == hosts_to_try(argHost)[hIdx] IN
       /\ probes' = Append(probes, <<h, pCur>>)
       /\ \E outcome \in ProbeOutcomes(h, pCur) :
            /\ healthy' = Append(healthy, check_ue5_health(outcome))
            /\ health' = outcome
            /\ IF check_ue5_health(outcome)
               THEN DiscoveryFound(h, pCur) /\ UNCHANGED <<hIdx, pCur>>
               ELSE StartScan(hIdx, pCur + 1)
    /\ UNCHANGED <<argHost, argPort>>
    /\ UNCHANGED loopVars


(***************************************************************************)
(* Output framing: write_response, write_error, the id backfill of main    *)
(***************************************************************************)

\* A replace that leaves carriage returns in place (C18 tells it from
\* ReplaceNewlines).
RECURSIVE ReplaceLineFeeds(_)
ReplaceLineFeeds(s) ==
    IF s = <<>> THEN <<>>
    ELSE (IF Head(s) = "\n" THEN <<" ">> ELSE <<Head(s)>>)
         \o ReplaceLineFeeds(Tail(s))

\* response.replace('\n', ' ').replace('\r', '')
RECURSIVE ReplaceNewlines(_)
ReplaceNewlines(s) ==
    IF s = <<>> THEN <<>>
    ELSE (IF Head(s) = "\n" THEN <<" ">>
          ELSE IF Head(s) = "\r" THEN <<>>
          ELSE <<Head(s)>>) \o ReplaceNewlines(Tail(s))

\* A write_response that skips the json round trip and prints the body with
\* its line ends replaced (C2 tells it from write_response).
write_responseRaw(response) == ReplaceNewlines(response)

\* A write_response that serializes with json.dumps' default separators
\* (C15 tells it from write_response).
write_responseDefault(response) ==
    LET r == JsonLoads(response) IN
    IF r.ok THEN DumpsDefault(r.val) ELSE ReplaceNewlines(response)

\* write_response: the line printed for response.
write_response(response) ==
    LET r == JsonLoads(response) IN
    IF r.ok THEN DumpsCompact(r.val) ELSE ReplaceNewlines(response)

ErrorObject(id, code, message) ==
    Dict(<<"\"jsonrpc\"", "\"id\"", "\"error\"">>,
         <<Str("\"2.0\""), id,
           Dict(<<"\"code\"", "\"message\"">>, <<Atom(code), Str(message)>>)>>)

\* A write_error that always reports the internal-error code (C3 tells it
\* from write_error).
write_errorInternal(id, code, message) ==
    DumpsCompact(ErrorObject(id, "-32603", message))

\* write_error: the line printed.
write_error(id, code, message) == DumpsCompact(ErrorObject(id, code, message))

\* main, lines 282-288: "Ensure response has correct ID".
Backfill(id, response) ==
    LET r == JsonLoads(response) IN
    IF r.ok /\ id # None /\ IsDict(r.val) /\ DictGet(r.val, "\"id\"") = None
    THEN DumpsDefault(DictSet(r.val, "\"id\"", id))
    ELSE response

\* A main that also drops a body that is not JSON (C1 tells it from MainEmit).
MainEmitJsonOnly(id, response) ==
    IF response = <<>> \/ ~JsonLoads(response).ok THEN <<>>
    ELSE <<[by |-> "main", text |-> write_response(Backfill(id, response))]>>

\* A main whose internal-error answer carries the request's id (C30 tells it
\* from MainEmit).
MainEmitErrorWithId(id, response) ==
    IF response = <<>> THEN <<>>
    ELSE IF JsonLoadsRaises(response)
    THEN <<[by |-> "main",
            text |-> write_error(id, "-32603",
                                 "\"maximum recursion depth exceeded\"")]>>
    ELSE <<[by |-> "main", text |-> write_response(Backfill(id, response))]>>

\* main, lines 280-298: the stdout lines written for a forwarder result.  The
\* bare except of lines 283-288 swallows what json.loads raises, the handler
\* of write_response (line 214) takes JSONDecodeError only: any other
\* exception of its json.loads reaches "except Exception" (lines 296-298).
MainEmit(id, response) ==
    IF response = <<>> THEN <<>>
    ELSE IF JsonLoadsRaises(response)
    THEN <<[by |-> "main",
            text |-> write_error(None, "-32603",
                                 "\"maximum recursion depth exceeded\"")]>>
    ELSE <<[by |-> "main", text |-> write_response(Backfill(id, response))]>>

(***************************************************************************)
(* SSE: parse_sse_event and the buffer loop of handle_sse_response         *)
(***************************************************************************)

\* event_str.split('\n')
RECURSIVE SplitLines(_, _)
SplitLines(s, cur) ==
    IF s = <<>> THEN <<cur>>
    ELSE IF Head(s) = "\n" THEN <<cur>> \o SplitLines(Tail(s), <<>>)
    ELSE SplitLines(Tail(s), Append(cur, Head(s)))

\* A parser that keeps the first data: line of a block (C27 tells it from
\* ParseLines).
RECURSIVE ParseLinesFirstData(_, _, _)
ParseLinesFirstData(lines, type, data) ==
    IF lines = <<>> THEN [type |-> type, data |-> data]
    ELSE LET l == Head(lines) IN
         IF l # <<>> /\ l[1] = "event:"
         THEN ParseLinesFirstData(Tail(lines), Strip(Tail(l)), data)
         ELSE IF l # <<>> /\ l[1] = "data:" /\ data = <<>>
         THEN ParseLinesFirstData(Tail(lines), type, Strip(Tail(l)))
         ELSE ParseLinesFirstData(Tail(lines), type, data)

\* parse_sse_event, lines 195-203: the loop over the lines of the block.
RECURSIVE ParseLines(_, _, _)
ParseLines(lines, type, data) ==
    IF lines = <<>> THEN [type |-> type, data |-> data]
    ELSE LET l == Head(lines) IN
         IF l # <<>> /\ l[1] = "event:"
         THEN ParseLines(Tail(lines), Strip(Tail(l)), data)
         ELSE IF l # <<>> /\ l[1] = "data:"
         THEN ParseLines(Tail(lines), type, Strip(Tail(l)))
         ELSE ParseLines(Tail(lines), type, data)

parse_sse_event(event_str) ==
    ParseLines(SplitLines(event_str, <<>>), <<"message">>, <<>>)

\* Index of the first '\n\n' in buf, 0 when there is none.
FindBlank(buf) ==
    IF \E i \in 1..(Len(buf) - 1) : buf[i] = "\n" /\ buf[i + 1] = "\n"
    THEN CHOOSE i \in 1..(Len(buf) - 1) :
            /\ buf[i] = "\n" /\ buf[i + 1] = "\n"
            /\ \A j \in 1..(i - 1) : ~(buf[j] = "\n" /\ buf[j + 1] = "\n")
    ELSE 0

\* A consumer that forwards progress events only (C26 tells it from IsPush).
IsPushProgressOnly(type) == type \in {<<"progress">>}

\* A consumer that forwards notification events only (C4 tells it from IsPush).
IsPushNotificationOnly(type) == type \in {<<"notification">>}

IsPush(type) == type \in {<<"progress">>, <<"notification">>}
IsTerminal(type) == type \in {<<"response">>, <<"result">>}

\* The while loop of lines 164-177 on buf: the rest of the buffer, the lines
\* printed and final_response ("" stands for None as well: both are falsy).
RECURSIVE ProcessEvents(_, _)
ProcessEvents(buf, pushed) ==
    LET i == FindBlank(buf) IN
    IF i = 0 THEN [buffer |-> buf, pushed |-> pushed, final |-> <<>>]
    ELSE LET ev   == parse_sse_event(SubSeq(buf, 1, i - 1))
             rest == SubSeq(buf, i + 2, Len(buf))
         IN  IF IsPush(ev.type)
             THEN ProcessEvents(rest,
                      IF ev.data # <<>>
                      THEN Append(pushed, [by |-> "sse", text |-> ev.data])
                      ELSE pushed)
             ELSE IF IsTerminal(ev.type)
             THEN [buffer |-> rest, pushed |-> pushed, final |-> ev.data]
             ELSE ProcessEvents(rest, pushed)


(***************************************************************************)
(* Main loop, forward_request, handle_sse_response                         *)
(***************************************************************************)

\* forward_request, lines 85-87: the request's Mcp-Session-Id header.
SessionHeader(sid) == IF sid \notin {NoSession, ""} THEN sid ELSE NoHeader

\* forward_request, line 101: resp.headers.get('Mcp-Session-Id', session_id).
NewSessionId(hdr, sid) == IF hdr # NoHeader THEN hdr ELSE sid

\* forward_request, lines 112-115: the session id returned on an HTTPError.
ErrorSessionId(hdr, sid) == sid

\* A forwarder that reports a transport failure as a parse error (C10 tells
\* it from TransportError).
TransportErrorParseCode(message) ==
    DumpsDefault(ErrorObject(None, "-32700", message))

\* forward_request, lines 119-124 and 128-133: the synthesized error body.
TransportError(message) ==
    DumpsDefault(ErrorObject(None, "-32603", message))

\* A loop that takes the next line while a stream is still being read, as a
\* background stream reader would allow (C6 tells it from AtLineRead).
AtLineReadOrStreaming == pc \in {"read", "sse_read"}

\* main, line 264: the loop takes the next stdin line only from here.
AtLineRead == pc = "read"

\* A response carried the session header hdr: a non-empty value is a token.
Supplied(hdr) == supplied' = IF hdr \notin {NoHeader, ""} THEN hdr ELSE supplied

\* forward_request has returned (response, sid); main, lines 277-290, takes
\* over: the session id is assigned and the response emitted.  written is
\* what the call printed itself (progress pushes).
Return(response, sid, written) ==
    /\ ret' = [returned |-> TRUE, body |-> response, sid |-> sid]
    /\ session_id' = sid
    /\ out' = out \o written \o MainEmit(request_id, response)
    /\ pc' = "read"

\* One iteration of "for line in sys.stdin" up to the POST (lines 264-277
\* and 85-99), or to its end when the line is not forwarded.
ReadLine ==
    /\ AtLineRead
    /\ \E raw \in InputLines :
         LET stripped == Strip(raw)
             request  == JsonLoads(stripped)
         IN  /\ line' = stripped
             /\ IF stripped = <<>>
                THEN \* continue
                     /\ out' = <<>>
                     /\ UNCHANGED <<pc, request_id, post>>
                ELSE IF ~request.ok
                THEN \* json.JSONDecodeError
                     /\ out' = <<[by |-> "main",
                                  text |-> write_error(None, "-32700",
                                                       "\"Parse error\"")]>>
                     /\ UNCHANGED <<pc, request_id, post>>
                ELSE IF ~IsDict(request.val)
                THEN \* request.get raises AttributeError
                     /\ out' = <<[by |-> "main",
                                  text |-> write_error(None, "-32603",
                                                 "\"no attribute 'get'\"")]>>
                     /\ UNCHANGED <<pc, request_id, post>>
                ELSE /\ request_id' = DictGet(request.val, "\"id\"")
                     /\ out' = <<>>
                     /\ post' = [host |-> server[1], port |-> server[2],
                                 hdr |-> SessionHeader(session_id),
                                 body |-> stripped]
                     /\ pc' = "post"
    /\ reply' = NoReply
    /\ ret' = NoRet
    /\ stream' = <<>>
    /\ UNCHANGED <<session_id, exitCode, exitCause, sent, buffer, supplied>>
    /\ UNCHANGED discoveryVars

\* The iterator of sys.stdin raises UnicodeDecodeError on a line that is not
\* valid in the stream's encoding (errors='strict'): main, lines 302-304.
\* Under errors='surrogateescape' the line is delivered (LineSurrogate).
StdinDecodeError ==
    /\ AtLineRead
    /\ pc' = "exit"
    /\ exitCode' = 1
    /\ exitCause' = "fatal"
    /\ UNCHANGED loopVars
    /\ UNCHANGED discoveryVars

\* A main that treats end of input as a failure (C16 tells it from
\* EndOfInput).
EndOfInputFails ==
    /\ AtLineRead
    /\ pc' = "exit"
    /\ exitCode' = 1
    /\ exitCause' = "eof"
    /\ UNCHANGED loopVars
    /\ UNCHANGED discoveryVars

\* End of input: the for loop ends, main returns.
EndOfInput ==
    /\ AtLineRead
    /\ pc' = "exit"
    /\ exitCode' = 0
    /\ exitCause' = "eof"
    /\ UNCHANGED loopVars
    /\ UNCHANGED discoveryVars

\* KeyboardInterrupt inside the outer try (lines 263-301): no handler below
\* main's catches it (they catch Exception), so whatever is in progress is
\* abandoned and main returns.
Interrupt ==
    /\ pc \in {"read", "post", "sse_open", "sse_read"}
    /\ pc' = "exit"
    /\ exitCode' = 0
    /\ exitCause' = "interrupt"
    /\ UNCHANGED loopVars
    /\ UNCHANGED discoveryVars

\* urlopen returns a response with status 200 (lines 99-110).
Post200 ==
    /\ pc = "post"
    /\ \E body \in Bodies200, hdr \in SessionHeaders :
         /\ reply' = [status |-> "200", hdr |-> hdr, body |-> body,
                      sid |-> NewSessionId(hdr, session_id), sse |-> ""]
         /\ Supplied(hdr)
         /\ Return(body, NewSessionId(hdr, session_id), <<>>)
    /\ UNCHANGED <<exitCode, exitCause, line, request_id, post>>
    /\ UNCHANGED discoveryVars
    /\ UNCHANGED sseVars

\* A consumer that follows any descriptor with an sseUrl, whatever its status
\* (C23 tells it from Deferred).
DeferredAnyStatus(response_body) ==
    LET sse_info == JsonLoads(response_body) IN
    /\ sse_info.ok
    /\ IsDict(sse_info.val)
    /\ DictGet(sse_info.val, "\"sseUrl\"") \notin {None, Str("\"\"")}

\* handle_sse_response, lines 138-149: is the 202 body a descriptor to follow?
Deferred(response_body) ==
    LET sse_info == JsonLoads(response_body) IN
    /\ sse_info.ok
    /\ IsDict(sse_info.val)
    /\ DictGet(sse_info.val, "\"status\"") = Str("\"accepted\"")
    /\ DictGet(sse_info.val, "\"sseUrl\"") \notin {None, Str("\"\"")}

\* urlopen returns a response with status 202 (lines 106-108, 138-154).
Post202 ==
    /\ pc = "post"
    /\ \E body \in Bodies202, hdr \in SessionHeaders :
         LET sid == NewSessionId(hdr, session_id) IN
         /\ Supplied(hdr)
         /\ IF Deferred(body)
            THEN /\ reply' = [status |-> "202", hdr |-> hdr, body |-> body,
                              sid |-> sid, sse |-> "opening"]
                 /\ pc' = "sse_open"
                 /\ UNCHANGED <<session_id, out, ret>>
            ELSE /\ reply' = [status |-> "202", hdr |-> hdr, body |-> body,
                              sid |-> sid, sse |-> "none"]
                 /\ Return(body, sid, <<>>)
    /\ UNCHANGED <<exitCode, exitCause, line, request_id, post>>
    /\ UNCHANGED discoveryVars
    /\ UNCHANGED sseVars

\* urlopen raises HTTPError (lines 112-115).
PostHttpError ==
    /\ pc = "post"
    /\ \E body \in BodiesError, hdr \in ErrorSessionHeaders :
         /\ reply' = [status |-> "500", hdr |-> hdr, body |-> body,
                      sid |-> ErrorSessionId(hdr, session_id), sse |-> ""]
         /\ Supplied(hdr)
         /\ Return(body, ErrorSessionId(hdr, session_id), <<>>)
    /\ UNCHANGED <<exitCode, exitCause, line, request_id, post>>
    /\ UNCHANGED discoveryVars
    /\ UNCHANGED sseVars

\* urlopen raises HTTPError and the error body does not decode (line 113):
\* the UnicodeDecodeError is raised inside the except clause, so no clause of
\* forward_request catches it; it reaches main's "except Exception" (lines
\* 296-298) before the assignment of line 277 takes place.
PostHttpErrorUnreadable ==
    /\ pc = "post"
    /\ \E hdr \in ErrorSessionHeaders :
         /\ reply' = [status |-> "500", hdr |-> hdr, body |-> BodyUndecodable,
                      sid |-> session_id, sse |-> ""]
         /\ Supplied(hdr)
    /\ out' = Append(out, [by |-> "main",
                           text |-> write_error(None, "-32603",
                                                "\"can't decode byte\"")])
    /\ pc' = "read"
    /\ UNCHANGED <<exitCode, exitCause, session_id, line, request_id, post, ret>>
    /\ UNCHANGED discoveryVars
    /\ UNCHANGED sseVars

\* A forwarder that looks for the server again after a connection failure
\* (C32 tells it from PostUrlError).
PostUrlErrorRescans ==
    /\ pc = "post"
    /\ reply' = [status |-> "URLError", hdr |-> NoHeader, body |-> <<>>,
                 sid |-> session_id, sse |-> ""]
    /\ Return(TransportError("\"Connection failed\""), session_id, <<>>)
    /\ probes' = Append(probes, server)
    /\ UNCHANGED <<exitCode, exitCause, line, request_id, post, supplied>>
    /\ UNCHANGED <<argHost, argPort, hIdx, pCur, healthy, health, server>>
    /\ UNCHANGED sseVars

\* urlopen raises URLError (lines 117-124): refused, DNS failure, timeout.
PostUrlError ==
    /\ pc = "post"
    /\ reply' = [status |-> "URLError", hdr |-> NoHeader, body |-> <<>>,
                 sid |-> session_id, sse |-> ""]
    /\ Return(TransportError("\"Connection failed\""), session_id, <<>>)
    /\ UNCHANGED <<exitCode, exitCause, line, request_id, post, supplied>>
    /\ UNCHANGED discoveryVars
    /\ UNCHANGED sseVars

\* A forwarder that issues the POST again after a timeout (C31 tells it from
\* PostException).
PostExceptionRetries ==
    /\ pc = "post"
    /\ reply' = [status |-> "Exception", hdr |-> NoHeader, body |-> <<>>,
                 sid |-> session_id, sse |-> ""]
    /\ UNCHANGED <<pc, session_id, out, ret>>
    /\ UNCHANGED <<exitCode, exitCause, line, request_id, post, supplied>>
    /\ UNCHANGED discoveryVars
    /\ UNCHANGED sseVars

\* Any other exception of the POST (lines 126-133), such as a read timeout.
PostException ==
    /\ pc = "post"
    /\ reply' = [status |-> "Exception", hdr |-> NoHeader, body |-> <<>>,
                 sid |-> session_id, sse |-> ""]
    /\ Return(TransportError("\"timed out\""), session_id, <<>>)
    /\ UNCHANGED <<exitCode, exitCause, line, request_id, post, supplied>>
    /\ UNCHANGED discoveryVars
    /\ UNCHANGED sseVars

\* handle_sse_response, line 154: the headers set on the GET of sseUrl.
SseRequestHeaders == {}

\* The GET of sseUrl is answered with an event stream (lines 154-158).
SseOpen ==
    /\ pc = "sse_open"
    /\ \E s \in Streams :
         /\ stream' = s
         /\ sent' = 0
         /\ buffer' = <<>>
    /\ reply' = [reply EXCEPT !.sse = "reading"]
    /\ pc' = "sse_read"
    /\ UNCHANGED <<exitCode, exitCause, session_id, line, request_id, out,
                   post, ret, supplied>>
    /\ UNCHANGED discoveryVars

\* A consumer that lets the failure of the GET end the process (C38 tells it
\* from SseOpenFails).
SseOpenFailsDies ==
    /\ pc = "sse_open"
    /\ reply' = [reply EXCEPT !.sse = "open_failed"]
    /\ pc' = "exit"
    /\ exitCode' = 1
    /\ exitCause' = "fatal"
    /\ UNCHANGED <<session_id, out, ret, line, request_id, post, supplied>>
    /\ UNCHANGED discoveryVars
    /\ UNCHANGED sseVars

\* The GET of sseUrl raises (lines 188-190): the 202 body is returned.
SseOpenFails ==
    /\ pc = "sse_open"
    /\ reply' = [reply EXCEPT !.sse = "open_failed"]
    /\ Return(reply.body, reply.sid, <<>>)
    /\ UNCHANGED <<exitCode, exitCause, line, request_id, post, supplied>>
    /\ UNCHANGED discoveryVars
    /\ UNCHANGED sseVars

\* Leaving the with block of line 156: the connection and the buffer are gone.
SseDone == sent' = 0 /\ buffer' = <<>> /\ stream' = stream

\* resp.read(1024) returns a chunk (lines 160-183): any non-empty part of
\* what the upstream has still to send.
SseChunk ==
    /\ pc = "sse_read"
    /\ sent < Len(stream)
    /\ \E n \in 1..(Len(stream) - sent) :
         LET chunk == SubSeq(stream, sent + 1, sent + n)
             r     == ProcessEvents(buffer \o chunk, <<>>)
         IN  IF r.final # <<>>
             THEN /\ reply' = [reply EXCEPT !.sse = "terminal"]
                  /\ Return(r.final, reply.sid, r.pushed)
                  /\ SseDone
             ELSE /\ sent' = sent + n
                  /\ buffer' = r.buffer
                  /\ out' = out \o r.pushed
                  /\ UNCHANGED <<pc, session_id, reply, stream, ret>>
    /\ UNCHANGED <<exitCode, exitCause, line, request_id, post, supplied>>
    /\ UNCHANGED discoveryVars

\* A consumer that takes what is left in the buffer at the end of the stream
\* as one more event (C36 tells it from SseClosed).
SseClosedFlushes ==
    /\ pc = "sse_read"
    /\ sent = Len(stream)
    /\ reply' = [reply EXCEPT !.sse = "closed"]
    /\ LET ev == parse_sse_event(buffer) IN
       Return(IF IsTerminal(ev.type) /\ ev.data # <<>> THEN ev.data
              ELSE reply.body, reply.sid, <<>>)
    /\ SseDone
    /\ UNCHANGED <<exitCode, exitCause, line, request_id, post, supplied>>
    /\ UNCHANGED discoveryVars

\* A consumer whose fallback returns the session id of before the POST
\* (C34 tells it from SseClosed).
SseClosedPriorSession ==
    /\ pc = "sse_read"
    /\ sent = Len(stream)
    /\ reply' = [reply EXCEPT !.sse = "closed"]
    /\ Return(reply.body, session_id, <<>>)
    /\ SseDone
    /\ UNCHANGED <<exitCode, exitCause, line, request_id, post, supplied>>
    /\ UNCHANGED discoveryVars

\* resp.read(1024) returns '' (the stream is closed): lines 185-186.
SseClosed ==
    /\ pc = "sse_read"
    /\ sent = Len(stream)
    /\ reply' = [reply EXCEPT !.sse = "closed"]
    /\ Return(reply.body, reply.sid, <<>>)
    /\ SseDone
    /\ UNCHANGED <<exitCode, exitCause, line, request_id, post, supplied>>
    /\ UNCHANGED discoveryVars

\* A consumer that answers a failed read with a synthesized error (C25 tells
\* it from SseReadFails).
SseReadFailsWithError ==
    /\ pc = "sse_read"
    /\ reply' = [reply EXCEPT !.sse = "read_failed"]
    /\ Return(TransportError("\"timed out\""), reply.sid, <<>>)
    /\ SseDone
    /\ UNCHANGED <<exitCode, exitCause, line, request_id, post, supplied>>
    /\ UNCHANGED discoveryVars

\* resp.read raises (reset, timeout): lines 188-190.
SseReadFails ==
    /\ pc = "sse_read"
    /\ reply' = [reply EXCEPT !.sse = "read_failed"]
    /\ Return(reply.body, reply.sid, <<>>)
    /\ SseDone
    /\ UNCHANGED <<exitCode, exitCause, line, request_id, post, supplied>>
    /\ UNCHANGED discoveryVars

Next ==
    \/ ProbeConfigured
    \/ ProbeRange
    \/ ReadLine
    \/ StdinDecodeError
    \/ EndOfInput
    \/ Interrupt
    \/ Post200
    \/ Post202
    \/ PostHttpError
    \/ PostHttpErrorUnreadable
    \/ PostUrlError
    \/ PostException
    \/ SseOpen
    \/ SseOpenFails
    \/ SseChunk
    \/ SseClosed
    \/ SseReadFails

Spec == Init /\ [][Next]_vars

\* The POST of a line gets its outcome: an answer, or a failure (the
\* timeout of line 99 at the latest).
HttpCompletes ==
    \/ Post200
    \/ Post202
    \/ PostHttpError
    \/ PostHttpErrorUnreadable
    \/ PostUrlError
    \/ PostException
\* The GET of a stream gets its outcome (line 156).
StreamOpens == SseOpen \/ SseOpenFails
\* The upstream goes on sending an opened stream, and closes it in the end.
StreamDelivers == SseChunk \/ SseClosed

\* The bridge started with --host localhost --port 8080.
FairInit == Init /\ argHost = "localhost" /\ argPort = 8080

\* Weak fairness of StreamDelivers, with its enabling condition written out:
\* a chunk or the end of the stream can be delivered exactly while the
\* stream is being read.
StreamsEnd ==
    []<>(pc # "sse_read") \/ []<><<StreamDelivers>>_vars

\* The loop under the condition that every HTTP exchange completes or fails
\* and every opened stream is delivered and closed.  Nothing is required of
\* the input: the next line may never come.
FairSpec ==
    /\ FairInit
    /\ [][Next]_vars
    /\ WF_vars(ProbeConfigured \/ ProbeRange)
    /\ WF_vars(HttpCompletes)
    /\ WF_vars(StreamOpens)
    /\ StreamsEnd


(***************************************************************************)
(* Vocabulary of the properties                                            *)
(***************************************************************************)

\* The lines of o written by the main loop / pushed by the SSE consumer.
MainLines(o) == {i \in 1..Len(o) : o[i].by = "main"}
PushLines(o) == {i \in 1..Len(o) : o[i].by = "sse"}

\* A text that is one line of minified JSON: it parses and holds no white space.
IsCompactJson(text) ==
    /\ JsonLoads(text).ok
    /\ \A i \in 1..Len(text) : text[i] \notin JsonWs

\* The positions of text (a compact JSON text) that hold an object key.
KeyPositions(text) ==
    {i \in 1..(Len(text) - 1) : text[i] \in StrLits /\ text[i + 1] = ":"}

\* A text in the form json.dumps(..., separators=(',', ':')) writes: compact,
\* every scalar written as json.dumps writes it, and no key occurring twice.
IsCanonicalJson(text) ==
    /\ IsCompactJson(text)
    /\ \A i \in 1..Len(text) : IsScalar(text[i]) => PyValue(text[i]) = text[i]
    /\ \A i, j \in KeyPositions(text) : i # j => text[i] # text[j]

\* The current line is not blank and parses as JSON / as a JSON object.
LineParses == line # <<>> /\ JsonLoads(line).ok
LineIsObject == LineParses /\ IsDict(JsonLoads(line).val)
\* The id of the request on the current line (None: no id, or a null id).
LineId == DictGet(JsonLoads(line).val, "\"id\"")

\* The current line has been handled and the loop is back at its head.
LineDone == pc = "read"
\* A request is in flight: its POST, the GET of its stream or the stream read.
InFlight == pc \in {"post", "sse_open", "sse_read"}
\* The loop has been entered.
LoopEntered == server # NoServer

\* text is a JSON-RPC error line with this code and this id.
IsErrorLine(text, code, id) ==
    /\ IsCompactJson(text)
    /\ LET v == JsonLoads(text).val IN
       /\ IsDict(v)
       /\ DictGet(v, "\"id\"") = id
       /\ IsDict(DictGet(v, "\"error\""))
       /\ DictGet(DictGet(v, "\"error\""), "\"code\"") = Atom(code)

\* The value of body with the request's id filled in where body has none.
WithId(body, id) ==
    LET v == JsonLoads(body).val IN
    IF id # None /\ DictGet(v, "\"id\"") = None
    THEN IF \E i \in 1..Len(v.keys) : v.keys[i] = "\"id\""
         THEN [v EXCEPT !.items[CHOOSE i \in 1..Len(v.keys) :
                                    v.keys[i] = "\"id\""] = id]
         ELSE [v EXCEPT !.keys = Append(v.keys, "\"id\""),
                        !.items = Append(v.items, id)]
    ELSE v

\* The id backfill has nothing to do on body for the current line.
NoBackfill(body) ==
    LET v == JsonLoads(body).val IN
    ~IsDict(v) \/ LineId = None \/ DictGet(v, "\"id\"") # None

\* The event types the consumer is to push / to end the read on.
PushTypes == {<<"progress">>, <<"notification">>}
TerminalTypes == {<<"response">>, <<"result">>}

\* The value of the last line of block (an event block) that starts with
\* prefix, trimmed; default when no line does.
LastField(block, prefix, default) ==
    LET lines == SplitLines(block, <<>>)
        hits  == {i \in 1..Len(lines) :
                     lines[i] # <<>> /\ lines[i][1] = prefix}
    IN  IF hits = {} THEN default
        ELSE LET last == CHOOSE i \in hits : \A j \in hits : j <= i
             IN  Strip(Tail(lines[last]))

\* The index of the first terminal event of bs (parsed blocks), 0 when none.
FirstTerminal(bs) ==
    LET T == {i \in 1..Len(bs) : bs[i].type \in TerminalTypes} IN
    IF T = {} THEN 0 ELSE CHOOSE i \in T : \A j \in T : i <= j

\* The data of the push events with data that come before the first terminal
\* event of bs, in order.
RECURSIVE PushData(_)
PushData(bs) ==
    IF bs = <<>> \/ Head(bs).type \in TerminalTypes THEN <<>>
    ELSE (IF Head(bs).type \in PushTypes /\ Head(bs).data # <<>>
          THEN <<Head(bs).data>> ELSE <<>>) \o PushData(Tail(bs))

\* The texts of the lines of o pushed by the SSE consumer, in order.
IsSsePush(e) == e.by = "sse"
PushTexts(o) ==
    LET ps == SelectSeq(o, IsSsePush) IN [i \in 1..Len(ps) |-> ps[i].text]

IsPrefix(a, b) == Len(a) <= Len(b) /\ SubSeq(b, 1, Len(a)) = a

\* The texts of the complete event blocks of a stream, unparsed.
RECURSIVE RawBlocks(_)
RawBlocks(s) ==
    LET i == FindBlank(s) IN
    IF i = 0 THEN <<>>
    ELSE <<SubSeq(s, 1, i - 1)>> \o RawBlocks(SubSeq(s, i + 2, Len(s)))

\* The event blocks of a stream that are complete (closed by a blank line).
RECURSIVE Blocks(_)
Blocks(s) ==
    LET i == FindBlank(s) IN
    IF i = 0 THEN <<>>
    ELSE <<parse_sse_event(SubSeq(s, 1, i - 1))>>
         \o Blocks(SubSeq(s, i + 2, Len(s)))

C3_ParseErrorAnswered ==
    (line # <<>> /\ ~JsonLoads(line).ok /\ pc # "exit") =>
        /\ Len(out) = 1
        /\ out[1].by = "main"
        /\ IsErrorLine(out[1].text, "-32700", None)
        /\ pc = "read"
        /\ exitCode = Running
        /\ ~ret.returned

C3_Witness ==
    /\ line = Strip(LineBad) /\ pc = "read"
    /\ Len(out) = 1 /\ IsErrorLine(out[1].text, "-32700", None)
    /\ session_id = "T1"

(***************************************************************************)
(* C4: a 202 with an accepted descriptor whose stream delivers a progress  *)
(* event with data and then a terminal response event with data: the       *)
(* progress data is written as one line first, the terminal data           *)
(* (minified, id filled in) as the next line, and nothing else.            *)
(***************************************************************************)
C4_ProgressThenResponse ==
    (LineDone /\ reply.status = "202" /\ reply.sse = "terminal"
       /\ Len(Blocks(stream)) >= 2
       /\ Blocks(stream)[1].type = <<"progress">>
       /\ Blocks(stream)[1].data # <<>>
       /\ Blocks(stream)[2].type = <<"response">>
       /\ Blocks(stream)[2].data # <<>>) =>
        /\ Len(out) = 2
        /\ out[1] = [by |-> "sse", text |-> Blocks(stream)[1].data]
        /\ out[2].by = "main"
        /\ IsCompactJson(out[2].text)
        /\ JsonLoads(out[2].text).val = WithId(Blocks(stream)[2].data, LineId)

C4_Witness ==
    /\ LineDone /\ reply.status = "202" /\ reply.sse = "terminal"
    /\ line = Strip(LinePing)
    /\ out = <<[by |-> "sse", text |-> DataProgress],
               [by |-> "main",
                text |-> <<"{", "\"result\"", ":", "\"ok\"", ",", "\"id\"", ":",
                           "1", "}">>]>>


(***************************************************************************)
(* C5: once a response has supplied a session token T, every POST issued   *)
(* afterwards carries the header Mcp-Session-Id: T, until a later response *)
(* supplies a different token; before any token, no session header.        *)
(* (supplied is the last token a POST response carried, NoHeader before.)  *)
(***************************************************************************)
C5_PostCarriesLastToken == pc = "post" => post.hdr = supplied

(***************************************************************************)
(* C6: at most one request is in flight and output follows input: while a  *)
(* request is in flight no further line is read and no further POST is     *)
(* issued, every line written goes after those already written for the    *)
(* line in flight, and its response line is written by the step that ends  *)
(* the flight, before the loop is back at its head.                        *)
(***************************************************************************)
C6_OneInFlightInOrder ==
    [][ /\ InFlight =>
            /\ line' = line /\ post' = post /\ request_id' = request_id
            /\ Len(out') >= Len(out) /\ SubSeq(out', 1, Len(out)) = out
            /\ MainLines(out) = {}
            /\ pc' \in {"read", "exit", "sse_open", "sse_read"}
        /\ (~InFlight /\ pc' = "post") => (pc = "read" /\ out' = <<>>)
        /\ (InFlight /\ pc' = "read") =>
              \A i \in MainLines(out') : i = Len(out')
      ]_vars

C6_Witness ==
    /\ pc = "sse_read" /\ post.hdr = "T2"
    /\ out = <<[by |-> "sse", text |-> DataProgress]>>
    /\ sent < Len(stream)

(***************************************************************************)
(* C7: with --host localhost, discovery probes (127.0.0.1, port) first,    *)
(* (localhost, port) second, and only then the ports of 27000..27010.      *)
(***************************************************************************)
C7_LocalhostProbeOrder ==
    argHost = "localhost" =>
        /\ Len(probes) >= 1 => probes[1] = <<"127.0.0.1", argPort>>
        /\ Len(probes) >= 2 => probes[2] = <<"localhost", argPort>>
        /\ \A i \in 3..Len(probes) :
              /\ probes[i][2] \in RANGE_FIRST..RANGE_LAST
              /\ probes[i] # <<"localhost", argPort>>
        /\ pc = "probe_range" => Len(probes) >= 2

C7_Witness ==
    /\ argHost = "localhost" /\ argPort = 8080
    /\ Len(probes) = 3
    /\ probes[3] = <<"127.0.0.1", RANGE_FIRST>>

(***************************************************************************)
(* C8: if every health probe fails, the process exits with code 1 without  *)
(* entering the loop: no stdin line read, nothing written, no POST.        *)
(***************************************************************************)
C8_NoServerNoLoop ==
    server = NoServer =>
        /\ pc \in {"probe_cfg", "probe_range", "exit"}
        /\ pc = "exit" =>
              /\ exitCode = 1
              /\ Len(probes) = Len(hosts_to_try(argHost))
                               + Len(ScanFrom(1, RANGE_FIRST, argHost, argPort))
        /\ line = <<>> /\ out = <<>> /\ post = NoPost /\ ~ret.returned
        /\ session_id = NoSession

C8_Witness ==
    /\ server = NoServer /\ pc = "exit" /\ exitCode = 1
    /\ argHost = "localhost" /\ argPort = DEFAULT_PORT
    /\ Len(probes) = 23

(***************************************************************************)
(* C9: once the loop is entered, no input line and no upstream behaviour   *)
(* ends the process: it ends only at end-of-input or on an interrupt,      *)
(* which both exit with code 0.                                            *)
(***************************************************************************)
C9_LoopNeverAborts == (LoopEntered /\ pc = "exit") => exitCode = 0

(***************************************************************************)
(* C10: when the POST fails at connection level, forward_request returns   *)
(* a synthesized error object with code -32603 and id null and the         *)
(* session id it was given; the line written is that object with the       *)
(* request's id, and the loop goes on.                                     *)
(***************************************************************************)
C10_ConnectionFailure ==
    [][ (pc = "post" /\ reply'.status \in {"URLError", "Exception"}) =>
            /\ ret'.returned
            /\ JsonLoads(ret'.body).ok
            /\ LET e == JsonLoads(ret'.body).val IN
               /\ IsDict(e)
               /\ DictGet(e, "\"id\"") = None
               /\ DictGet(DictGet(e, "\"error\""), "\"code\"") = Atom("-32603")
            /\ ret'.sid = session_id
            /\ session_id' = session_id
            /\ Len(out') = 1
            /\ out'[1].by = "main"
            /\ IsErrorLine(out'[1].text, "-32603", LineId)
            /\ JsonLoads(out'[1].text).val = WithId(ret'.body, LineId)
            /\ pc' = "read"
            /\ exitCode' = Running
      ]_vars

C10_Witness ==
    /\ pc = "read" /\ reply.status = "URLError"
    /\ line = Strip(LinePing) /\ session_id = "T1"
    /\ Len(out) = 1 /\ IsErrorLine(out[1].text, "-32603", Atom("1"))


(***************************************************************************)
(* C11: forward_request always returns a (body, session id) pair: when the *)
(* POST of the current line has been answered or has failed and the loop   *)
(* is back at its head, forward_request has returned, whatever the outcome *)
(* (any status, descriptor, stream, unreadable error body, failure).       *)
(***************************************************************************)
C11_ForwarderAlwaysReturns == (pc = "read" /\ reply.status # "") => ret.returned

(***************************************************************************)
(* C12: the session id is never cleared: once main's session_id holds a    *)
(* token, it holds a token after every later step, whatever the responses  *)
(* are, and every POST issued from then on carries a session header.       *)
(***************************************************************************)
C12_SessionNeverCleared ==
    [][ session_id \notin {NoSession, ""} =>
            /\ session_id' \notin {NoSession, ""}
            /\ pc' = "post" => post'.hdr # NoHeader
      ]_vars

(***************************************************************************)
(* C13: the session token is updatable by any response: when the response  *)
(* to the current line's POST carried a session header with a token,       *)
(* whatever its status (200, 202, error status), that token is main's      *)
(* session id once the line is done, so the next POST carries it.          *)
(***************************************************************************)
C13_AnyResponseUpdates ==
    (pc = "read" /\ reply.status \in {"200", "202", "500"}
       /\ reply.hdr \notin {NoHeader, ""}) => session_id = reply.hdr

(***************************************************************************)
(* C14: canonicalization leaves a body that is already compact one-line    *)
(* JSON unchanged: when the body forward_request returned is compact JSON  *)
(* (and the id backfill does not apply), the line written equals it token  *)
(* for token, and canonicalizing that line again gives the same line.      *)
(***************************************************************************)
C14_CompactUnchanged ==
    (LineDone /\ ret.returned /\ IsCompactJson(ret.body)
       /\ NoBackfill(ret.body)) =>
        LET t == out[Len(out)].text IN
        /\ t = ret.body
        /\ write_response(t) = t

\* C14, amended: a JSON body is written as the json.dumps form of its parsed
\* value: the line equals the body when the body is already in that form
\* (compact, scalars as json.dumps writes them, no key twice); otherwise the
\* line is the canonical encoding of the same value; canonicalizing the line
\* again gives the same line.
C14_CanonicalUnchanged ==
    (LineDone /\ ret.returned /\ JsonLoads(ret.body).ok
       /\ NoBackfill(ret.body)) =>
        LET t == out[Len(out)].text IN
        /\ out[Len(out)].by = "main"
        /\ IsCanonicalJson(ret.body) => t = ret.body
        /\ IsCanonicalJson(t)
        /\ JsonLoads(t).val = JsonLoads(ret.body).val
        /\ write_response(t) = t

C14_Witness ==
    /\ LineDone /\ line = Strip(LinePing)
    /\ reply.status = "200" /\ ret.returned /\ ret.body = BodyOtherId
    /\ out = <<[by |-> "main", text |-> BodyOtherId]>>

(***************************************************************************)
(* C15: end to end, a request with id X answered 200 with a compact JSON   *)
(* object body that carries id X gets exactly one line, equal to the body  *)
(* token for token (ping with id 1 answered by pong with id 1).            *)
(***************************************************************************)
C15_ExactEcho ==
    (LineDone /\ LineIsObject /\ reply.status = "200"
       /\ IsCompactJson(reply.body) /\ IsDict(JsonLoads(reply.body).val)
       /\ LineId # None
       /\ DictGet(JsonLoads(reply.body).val, "\"id\"") = LineId) =>
        out = <<[by |-> "main", text |-> reply.body]>>

\* C15, amended: the one line equals the body token for token when the body
\* is in json.dumps form (compact, scalars as json.dumps writes them, no key
\* twice); for any other compact body it is the canonical encoding of the
\* same value, the id still X.
C15_ExactEchoOfCanonical ==
    (LineDone /\ LineIsObject /\ reply.status = "200"
       /\ IsCompactJson(reply.body) /\ IsDict(JsonLoads(reply.body).val)
       /\ LineId # None
       /\ DictGet(JsonLoads(reply.body).val, "\"id\"") = LineId) =>
        /\ Len(out) = 1
        /\ out[1].by = "main"
        /\ IsCanonicalJson(reply.body) => out[1].text = reply.body
        /\ IsCanonicalJson(out[1].text)
        /\ JsonLoads(out[1].text).val = JsonLoads(reply.body).val
        /\ DictGet(JsonLoads(out[1].text).val, "\"id\"") = LineId

C15_Witness ==
    /\ LineDone /\ line = Strip(LinePing)
    /\ reply.status = "200" /\ reply.body = BodyPong
    /\ out = <<[by |-> "main", text |-> BodyPong]>>
    /\ BodyPong = <<"{", "\"jsonrpc\"", ":", "\"2.0\"", ",", "\"id\"", ":", "1",
                    ",", "\"result\"", ":", "\"pong\"", "}">>

(***************************************************************************)
(* C16: after a successful discovery, end of input and an interrupt that   *)
(* arrives while the loop waits for the next line both end the process     *)
(* with exit code 0, without reading a line, writing or posting anything;  *)
(* and once the process has ended nothing happens any more.                *)
(***************************************************************************)
C16_CleanShutdown ==
    [][ /\ (LoopEntered /\ pc = "read" /\ exitCause' \in {"eof", "interrupt"}) =>
              /\ pc' = "exit"
              /\ exitCode' = 0
              /\ line' = line /\ out' = out /\ post' = post
              /\ session_id' = session_id
        /\ pc # "exit"
      ]_vars

C16_Witness ==
    /\ pc = "exit" /\ exitCause = "interrupt" /\ exitCode = 0
    /\ LoopEntered /\ line = Strip(LinePing) /\ ret.returned
    /\ Len(out) = 1

(***************************************************************************)
(* C17: an interrupt is not honored while a request is in flight: the      *)
(* process does not end during the POST, the GET of the stream or the      *)
(* stream read; the call completes and its response line is written first. *)
(***************************************************************************)
C17_NoMidCallInterrupt == [][ InFlight => pc' # "exit" ]_vars

(***************************************************************************)
(* C18: every line the main loop writes is a single line: it holds no      *)
(* line feed and no carriage return, and the line for a JSON body is       *)
(* minified one-line JSON.                                                 *)
(***************************************************************************)
C18_SingleLine ==
    /\ \A i \in MainLines(out) :
          \A k \in 1..Len(out[i].text) : out[i].text[k] \notin {"\n", "\r"}
    /\ (LineDone /\ ret.returned /\ JsonLoads(ret.body).ok) =>
          IsCompactJson(out[Len(out)].text)

C18_Witness ==
    /\ LineDone /\ ret.returned /\ ret.body = BodyText
    /\ out = <<[by |-> "main",
                text |-> <<"Internal", " ", "Server", " ", "Error", " ">>]>>

(***************************************************************************)
(* C19: find_ue5_server probes the configured port on each candidate host, *)
(* then for each candidate host in order the ports 27000..27010 ascending  *)
(* (a pair of the range is probed only when every pair ahead of it in that *)
(* order has been probed); it stops at the first probe that succeeds and   *)
(* returns that pair; it returns none exactly when every probe failed,     *)
(* after the whole matrix was probed.                                      *)
(***************************************************************************)
C19_FirstSuccess ==
    LET hs == hosts_to_try(argHost)
        n  == Len(hs)
        m  == Len(probes)
        Idx(h) == CHOOSE k \in 1..n : hs[k] = h
        Ahead(k, p, pair) ==
            \/ k < Idx(pair[1])
            \/ k = Idx(pair[1]) /\ p < pair[2]
        Done == pc \notin {"probe_cfg", "probe_range"}
    IN  /\ Len(healthy) = m
        /\ \A i \in 1..(m - 1) : ~healthy[i]
        /\ \A i \in 1..m : i <= n => probes[i] = <<hs[i], argPort>>
        /\ \A i \in (n + 1)..m :
              /\ probes[i][2] \in RANGE_FIRST..RANGE_LAST
              /\ \E k \in 1..n : hs[k] = probes[i][1]
              /\ \A k \in 1..n, p \in RANGE_FIRST..RANGE_LAST :
                    Ahead(k, p, probes[i]) =>
                        \E j \in 1..(i - 1) : probes[j] = <<hs[k], p>>
        /\ server # NoServer =>
              /\ Done /\ m >= 1
              /\ healthy[m]
              /\ server = probes[m]
        /\ Done => (server = NoServer <=> \A i \in 1..m : ~healthy[i])
        /\ (Done /\ server = NoServer) =>
              /\ m >= n
              /\ \A k \in 1..n, p \in RANGE_FIRST..RANGE_LAST :
                    \E j \in 1..m : probes[j] = <<hs[k], p>>

C19_Witness ==
    /\ argHost = "localhost" /\ argPort = 8080
    /\ server = <<"localhost", 27005>> /\ pc = "read"
    /\ Len(probes) = 19 /\ healthy[19]

(***************************************************************************)
(* C20: during one discovery run no (host, port) pair is probed twice.     *)
(***************************************************************************)
C20_NoPairProbedTwice ==
    \A i, j \in 1..Len(probes) : i # j => probes[i] # probes[j]

(***************************************************************************)
(* C21: a health probe never raises: check_ue5_health returns true only    *)
(* when the GET answered with status 200 and false for every failure,      *)
(* timeout or other status; so each probe made has a result, discovery     *)
(* goes on after a failed probe and ends without a server only with the    *)
(* "no server" exit.                                                       *)
(***************************************************************************)
C21_ProbeNeverRaises ==
    /\ Len(healthy) = Len(probes)
    /\ \A i \in 1..Len(healthy) : healthy[i] \in BOOLEAN
    /\ Len(probes) >= 1 =>
          /\ healthy[Len(probes)] => health = "200"
          /\ health \in {"204", "503", "refused", "timeout"} =>
                ~healthy[Len(probes)]
    /\ (pc = "exit" /\ server = NoServer) => exitCause = "no_server"
    /\ (Len(probes) >= 1 /\ ~healthy[Len(probes)]) =>
          pc \in {"probe_cfg", "probe_range", "exit"}

C21_Witness ==
    /\ argHost = "127.0.0.1" /\ argPort = 8080
    /\ Len(probes) = 2 /\ probes[2] = <<"127.0.0.1", RANGE_FIRST>>
    /\ health = "timeout" /\ ~healthy[2]
    /\ pc = "probe_range" /\ exitCode = Running

(***************************************************************************)
(* C22: when the POST of the current line was answered with an HTTP error  *)
(* status, forward_request has returned the error body unchanged with the  *)
(* session id it was called with, and the main loop has written exactly    *)
(* one line for the request: that body, canonicalized, id filled in.       *)
(***************************************************************************)
C22_ErrorBodyPassedThrough ==
    (LineDone /\ reply.status = "500") =>
        /\ ret.returned
        /\ ret.body = reply.body
        /\ SessionHeader(ret.sid) = post.hdr
        /\ session_id = ret.sid
        /\ Len(out) = 1
        /\ out[1].by = "main"
        /\ JsonLoads(reply.body).ok =>
              /\ IsCompactJson(out[1].text)
              /\ JsonLoads(out[1].text).val = WithId(reply.body, LineId)

(***************************************************************************)
(* C23: when the body of a 202 is a JSON object whose status is not        *)
(* "accepted" or that has no sseUrl (or an empty one), handle_sse_response *)
(* returns the body unchanged with the session id it was given (the        *)
(* response's session header, else the caller's), and no GET is issued.    *)
(***************************************************************************)
C23_DescriptorNotFollowed ==
    [][ (pc = "post" /\ reply'.status = "202"
           /\ JsonLoads(reply'.body).ok /\ IsDict(JsonLoads(reply'.body).val)
           /\ LET d == JsonLoads(reply'.body).val IN
              \/ DictGet(d, "\"status\"") # Str("\"accepted\"")
              \/ DictGet(d, "\"sseUrl\"") \in {None, Str("\"\"")}) =>
            /\ pc' = "read"
            /\ reply'.sse = "none"
            /\ ret'.returned
            /\ ret'.body = reply'.body
            /\ ret'.sid = IF reply'.hdr # NoHeader THEN reply'.hdr
                          ELSE session_id
            /\ session_id' = ret'.sid
            /\ UNCHANGED sseVars
      ]_vars

C23_Witness ==
    /\ LineDone /\ reply.status = "202" /\ reply.body = DescPending
    /\ reply.sse = "none" /\ reply.hdr = "T1"
    /\ ret.returned /\ ret.body = DescPending /\ session_id = "T1"
    /\ stream = <<>>

(***************************************************************************)
(* C24: the first response or result event of the stream ends the read,    *)
(* whatever its data: its data is the result returned, the stream is never *)
(* read to its end once such an event is in it, and no line is pushed for  *)
(* an event that follows it.                                               *)
(***************************************************************************)
C24_TerminalEndsRead ==
    (reply.status = "202" /\ FirstTerminal(Blocks(stream)) # 0) =>
        /\ IsPrefix(PushTexts(out), PushData(Blocks(stream)))
        /\ reply.sse # "closed"
        /\ reply.sse = "terminal" =>
              ret.body = Blocks(stream)[FirstTerminal(Blocks(stream))].data

(***************************************************************************)
(* C25: when the stream closes without a result, or opening or reading it  *)
(* fails, the call returns the 202 descriptor body and the session id the  *)
(* 202 response gave; the lines pushed so far stay, and exactly one more   *)
(* line, the descriptor with the request's id filled in, is written.       *)
(***************************************************************************)
C25_FallbackToDescriptor ==
    [][(pc \in {"sse_open", "sse_read"}
          /\ reply'.sse \in {"closed", "open_failed", "read_failed"}) =>
        /\ ret' = [returned |-> TRUE, body |-> reply.body, sid |-> reply.sid]
        /\ session_id' = reply.sid
        /\ pc' = "read"
        /\ Len(out') = Len(out) + 1
        /\ SubSeq(out', 1, Len(out)) = out
        /\ out'[Len(out')].by = "main"
        /\ IsCompactJson(out'[Len(out')].text)
        /\ JsonLoads(out'[Len(out')].text).val = WithId(reply.body, LineId)
      ]_vars

C25_Witness ==
    /\ LineDone /\ reply.status = "202" /\ reply.sse = "read_failed"
    /\ ret.returned /\ ret.body = DescAccepted
    /\ Len(out) = 2
    /\ out[1] = [by |-> "sse", text |-> DataProgress]
    /\ out[2].by = "main"
    /\ JsonLoads(out[2].text).val = WithId(DescAccepted, LineId)

(***************************************************************************)
(* C26: while a stream is read, the lines pushed so far are exactly the    *)
(* data of the progress and notification events with data received so far, *)
(* one line each in stream order, as long as no response or result event   *)
(* has been received; events without data and events of other types push   *)
(* nothing and do not end the read.  When the call has returned a result,  *)
(* every such event before that result was pushed before the answer line.  *)
(***************************************************************************)
C26_PushesFollowStream ==
    /\ pc = "sse_read" =>
         LET c == Blocks(SubSeq(stream, 1, sent)) IN
         /\ IsPrefix(PushData(c), PushTexts(out))
         /\ FirstTerminal(c) = 0 => PushTexts(out) = PushData(c)
         /\ MainLines(out) = {}
    /\ (LineDone /\ reply.status = "202" /\ reply.sse = "terminal") =>
         /\ IsPrefix(PushData(Blocks(stream)), PushTexts(out))
         /\ MainLines(out) = {Len(out)}

C26_Witness ==
    /\ pc = "sse_read"
    /\ stream = EvEmptyProgress \o EvMessage \o EvNotification \o EvOverwritten
    /\ sent = Len(EvEmptyProgress \o EvMessage \o EvNotification)
    /\ out = <<[by |-> "sse", text |-> <<"50">>]>>

(***************************************************************************)
(* C27: for every event block, parse_sse_event gives as type the trimmed   *)
(* value of the last event: line ("message" when there is none) and as     *)
(* data the trimmed value of the last data: line (empty when there is      *)
(* none); earlier event: and data: lines and all other lines do not count. *)
(***************************************************************************)
C27_LastFieldWins ==
    \A k \in 1..Len(RawBlocks(stream)) :
        LET b == RawBlocks(stream)[k] IN
        parse_sse_event(b) = [type |-> LastField(b, "event:", <<"message">>),
                              data |-> LastField(b, "data:", <<>>)]

C27_Witness ==
    /\ LineDone /\ reply.status = "202" /\ reply.sse = "terminal"
    /\ Len(RawBlocks(stream)) = 4
    /\ RawBlocks(stream)[4] = SubSeq(EvOverwritten, 1, Len(EvOverwritten) - 2)
    /\ parse_sse_event(RawBlocks(stream)[4]) =
          [type |-> <<"result">>, data |-> <<"\"ok\"">>]
    /\ ret.body = <<"\"ok\"">>

(***************************************************************************)
(* C28: the line written for a returned body carries the request's id      *)
(* exactly when the request has a non-null id and the body is a JSON       *)
(* object without a non-null id; an object body with an id of its own      *)
(* keeps it, a request without id gets none added, a JSON body that is no  *)
(* object is written as parsed, and a body that is not JSON is written as  *)
(* text with its line ends replaced, never as an error.                    *)
(***************************************************************************)
C28_BackfillExactlyWhenMissing ==
    (LineDone /\ ret.returned /\ ret.body # <<>>) =>
        /\ MainLines(out) = {Len(out)}
        /\ LET b == JsonLoads(ret.body)
               t == out[Len(out)].text
               o == JsonLoads(t).val
           IN  IF ~b.ok THEN t = ReplaceNewlines(ret.body)
               ELSE /\ IsCompactJson(t)
                    /\ IF IsDict(b.val) /\ LineId # None
                          /\ DictGet(b.val, "\"id\"") = None
                       THEN /\ DictGet(o, "\"id\"") = LineId
                            /\ o = WithId(ret.body, LineId)
                            /\ \A k \in 1..Len(b.val.keys) :
                                  b.val.keys[k] # "\"id\"" =>
                                    DictGet(o, b.val.keys[k]) = b.val.items[k]
                       ELSE o = b.val

(***************************************************************************)
(* C29: every non-blank line that parses as JSON, whatever its kind, is    *)
(* forwarded: a POST with the line as its body is issued for it, and the   *)
(* line is done only once that POST has had its outcome.                   *)
(***************************************************************************)
C29_EveryParsableLineForwarded ==
    (LoopEntered /\ LineParses) =>
        /\ post # NoPost
        /\ post.body = line
        /\ LineDone => reply # NoReply

\* The step raises an exception, other than a parse failure of the line,
\* before forward_request has returned: the line is JSON but no object, or
\* the body of an HTTP error does not decode.
RaisedBeforeReturn ==
    \/ /\ pc = "read" /\ pc' = "read" /\ line' # <<>>
       /\ JsonLoads(line').ok /\ ~IsDict(JsonLoads(line').val)
    \/ /\ pc = "post" /\ pc' = "read" /\ reply'.body = BodyUndecodable
\* The step raises after forward_request has returned: the returned body
\* makes json.loads raise in write_response.
RaisedAfterReturn ==
    /\ InFlight /\ pc' = "read" /\ ret'.returned /\ JsonLoadsRaises(ret'.body)
\* The step has written exactly one line for the current input line, a
\* -32603 error with id null, and the loop is back at its head.
AnsweredInternalError ==
    /\ pc' = "read"
    /\ MainLines(out') = {Len(out')}
    /\ Len(out') = (IF pc = "read" THEN 0 ELSE Len(out)) + 1
    /\ IsErrorLine(out'[Len(out')].text, "-32603", None)

(***************************************************************************)
(* C30 as stated: every exception raised while a line is processed, other  *)
(* than a parse failure of the line, is answered with one -32603 error     *)
(* with id null, the loop goes on, and the session id is unchanged.        *)
(***************************************************************************)
C30_ErrorKeepsSession ==
    [][(RaisedBeforeReturn \/ RaisedAfterReturn) =>
         (AnsweredInternalError /\ session_id' = session_id)]_vars

(***************************************************************************)
(* C30 amended: such an exception is answered with one -32603 error with   *)
(* id null and the loop goes on; the session id is unchanged when the      *)
(* exception was raised before forward_request returned, and is the one    *)
(* forward_request returned when it was raised afterwards.                 *)
(***************************************************************************)
C30_ErrorAnsweredSessionAsReturned ==
    [][/\ RaisedBeforeReturn =>
            (AnsweredInternalError /\ session_id' = session_id)
       /\ RaisedAfterReturn =>
            (AnsweredInternalError /\ session_id' = ret'.sid
               /\ ret'.sid = NewSessionId(reply'.hdr, session_id))]_vars

C30_Witness ==
    /\ LineDone /\ line = Strip(LinePing)
    /\ post.hdr = NoHeader
    /\ reply.status = "200" /\ reply.hdr = "T1"
    /\ ret.returned /\ ret.body = BodyTooDeep
    /\ session_id = "T1"
    /\ Len(out) = 1
    /\ IsErrorLine(out[1].text, "-32603", None)

(***************************************************************************)
(* C31: nothing is retried.  A POST is issued only by taking a new line    *)
(* from the input, and it is that line's; the GET of a stream is issued    *)
(* only as the continuation of the POST's 202 answer; whatever a POST, a   *)
(* GET or a stream read ends in, the next step of the loop is the next     *)
(* line (or the end), never the same POST or GET again.                    *)
(***************************************************************************)
C31_NothingRetried ==
    [][/\ pc' = "post" =>
            (pc = "read" /\ line' # <<>> /\ post'.body = line')
       /\ pc' = "sse_open" => (pc = "post" /\ reply'.status = "202")
       /\ pc' = "sse_read" => pc \in {"sse_open", "sse_read"}
       /\ pc = "post" => pc' \in {"read", "sse_open", "exit"}
       /\ pc = "sse_open" => pc' \in {"read", "sse_read", "exit"}
       /\ (pc = "sse_read" /\ pc' = "sse_read") =>
            (sent' > sent /\ stream' = stream)
       /\ InFlight => (post' = post /\ line' = line)]_vars

C31_Witness ==
    /\ LineDone /\ line = Strip(LinePing) /\ post.body = line
    /\ reply.status = "202" /\ reply.sse = "open_failed"
    /\ ret.returned /\ ret.body = DescAccepted
    /\ Len(out) = 1 /\ out[1].by = "main"

(***************************************************************************)
(* C32: the endpoint is resolved once.  Once discovery has returned a      *)
(* server, no health probe is issued any more and the server stays the     *)
(* same, and every POST goes to that host and port, also after connection  *)
(* failures.                                                               *)
(***************************************************************************)
C32_EndpointResolvedOnce ==
    [][LoopEntered =>
         /\ probes' = probes
         /\ server' = server
         /\ pc' \notin {"probe_cfg", "probe_range"}
         /\ pc' = "post" =>
               (post'.host = server[1] /\ post'.port = server[2])]_vars

C32_Witness ==
    /\ LineDone /\ reply.status = "URLError"
    /\ server = <<"localhost", 27005>>
    /\ post.host = "localhost" /\ post.port = 27005 /\ post.body = line
    /\ probes[Len(probes)] = server

(***************************************************************************)
(* C33: what the SSE consumer pushes and returns depends on the content of *)
(* the stream only, not on how the stream is cut into chunks: when the     *)
(* read of a stream is over, the lines pushed and the body returned are    *)
(* those of the delivery of the whole stream in one chunk.                 *)
(***************************************************************************)
C33_ChunkingIrrelevant ==
    (LineDone /\ reply.status = "202" /\ reply.sse \in {"terminal", "closed"})
      => LET whole == ProcessEvents(stream, <<>>) IN
         /\ PushTexts(out) = PushTexts(whole.pushed)
         /\ ret.body = IF whole.final # <<>> THEN whole.final ELSE reply.body

(***************************************************************************)
(* C34: the SSE consumer leaves the session alone.  The GET of the stream  *)
(* carries no session header; while the stream is opened and read the      *)
(* session id does not change; and the session id in force when the call   *)
(* is over is the one of the 202 answer (its Mcp-Session-Id header, or the *)
(* id of before when it has none), whether the stream gave a result or     *)
(* the descriptor was returned.                                            *)
(***************************************************************************)
C34_SseKeepsSession ==
    [][(pc = "sse_open" \/ pc = "sse_read") =>
         /\ "Mcp-Session-Id" \notin SseRequestHeaders
         /\ reply.sid = NewSessionId(reply.hdr, session_id)
         /\ reply'.sid = reply.sid /\ reply'.hdr = reply.hdr
         /\ supplied' = supplied
         /\ pc' \in {"sse_open", "sse_read"} => session_id' = session_id
         /\ pc' = "read" => (session_id' = reply.sid /\ ret'.sid = reply.sid)]_vars

C34_Witness ==
    /\ LineDone /\ reply.status = "202" /\ reply.sse = "closed"
    /\ post.hdr = "T2" /\ reply.hdr = "T1"
    /\ session_id = "T1" /\ ret.sid = "T1"
    /\ ret.body = DescAccepted

\* A text of white space only (the empty text included).
IsBlank(text) == \A i \in 1..Len(text) : text[i] \in JsonWs

(***************************************************************************)
(* C35: taking a blank line writes nothing, and taking a blank line or a   *)
(* line that is not JSON issues no HTTP request and leaves the session id  *)
(* as it is; the loop stays at its head.  (A line that is not JSON is      *)
(* answered with the parse error.)                                         *)
(***************************************************************************)
C35_BlankAndBadLinesStayLocal ==
    [][(pc = "read" /\ pc' # "exit"
          /\ (IsBlank(line') \/ ~JsonLoads(line').ok)) =>
         /\ pc' = "read"
         /\ post' = post
         /\ reply' = NoReply /\ ret' = NoRet
         /\ session_id' = session_id
         /\ supplied' = supplied
         /\ IF IsBlank(line') THEN out' = <<>>
            ELSE /\ Len(out') = 1
                 /\ IsErrorLine(out'[1].text, "-32700", None)]_vars

C35_Witness ==
    /\ LineDone /\ line = <<>> /\ out = <<>>
    /\ reply = NoReply /\ ret = NoRet
    /\ post.body = Strip(LineNotify) /\ post.hdr = "T2"
    /\ session_id = "T1"

\* What follows the last complete event block of a stream.
RECURSIVE Unterminated(_)
Unterminated(s) ==
    LET i == FindBlank(s) IN
    IF i = 0 THEN s ELSE Unterminated(SubSeq(s, i + 2, Len(s)))

(***************************************************************************)
(* C36: only event blocks closed by a blank line count.  A result returned *)
(* is the data of a complete response or result block; when the stream     *)
(* closes with no complete terminal block in it, the 202 descriptor is     *)
(* returned and the lines pushed are those of the complete blocks, even    *)
(* when the unterminated rest of the stream is a response event.           *)
(***************************************************************************)
C36_UnterminatedBlockDropped ==
    (LineDone /\ reply.status = "202") =>
        /\ reply.sse = "terminal" =>
              \E k \in 1..Len(Blocks(stream)) :
                  /\ Blocks(stream)[k].type \in TerminalTypes
                  /\ ret.body = Blocks(stream)[k].data
        /\ (reply.sse = "closed" /\ FirstTerminal(Blocks(stream)) = 0) =>
              /\ ret.body = reply.body
              /\ PushTexts(out) = PushData(Blocks(stream))

C36_Witness ==
    /\ LineDone /\ reply.status = "202" /\ reply.sse = "closed"
    /\ Unterminated(stream) # <<>>
    /\ parse_sse_event(Unterminated(stream)) =
          [type |-> <<"response">>, data |-> DataResult]
    /\ ret.body = DescAccepted
    /\ PushTexts(out) = <<>>

(***************************************************************************)
(* C37: discovery ends after a bounded number of probes whatever they end  *)
(* in: at most 12 probes have been made when the configured host is not    *)
(* localhost and at most 24 when it is, and while a probe is still to be   *)
(* made the count is below that bound.                                     *)
(***************************************************************************)
C37_ProbesBounded ==
    LET bound == IF argHost = "localhost" THEN 24 ELSE 12 IN
    /\ Len(probes) <= bound
    /\ pc \in {"probe_cfg", "probe_range"} => Len(probes) < bound
    /\ \A i \in 1..Len(probes) :
         /\ probes[i][1] \in {argHost, "127.0.0.1"}
         /\ probes[i][2] \in {argPort} \cup RANGE_FIRST..RANGE_LAST

C37_Witness ==
    /\ pc = "exit" /\ exitCause = "no_server" /\ server = NoServer
    /\ argHost = "localhost" /\ argPort = 8080
    /\ Len(probes) = 24
    /\ probes[24] = <<"localhost", RANGE_LAST>>

=============================================================================
